---- MODULE Spec2Model ----
(***************************************************************************)
(* File tracking and command registry engine of CMMANDS                    *)
(* (src/runtime.js, class CmmandsUniversal).                               *)
(*                                                                         *)
(* Strings are sequences of one-character strings, so that lower-casing,   *)
(* substring search, splitting and name building are computed and not      *)
(* assumed.  JavaScript Maps are sequences of [k, v] entries in insertion  *)
(* order.  File content is a sequence of lexical items, one per line: the  *)
(* regular expressions of the parser and of the analysis engine are        *)
(* modelled by the kind of item they match.                                *)
(*                                                                         *)
(* Members that src/runtime.js calls but does not define (_findAllFiles,   *)
(* _updateFileDependencies, _detectLanguage, _startFileWatching,           *)
(* _createUniversalPath, _createSecurityEngine, and the parser member that *)
(* the analysis engine reads through its own `this` at lines 569 and 626)  *)
(* are modelled from spec.md and marked so.                                *)
(***************************************************************************)
EXTENDS Naturals, Sequences, FiniteSets, TLC

VARIABLES
    fs,               \* storage substrate: path -> [exists, content]
    commandRegistry,  \* this.commandRegistry (line 11)
    trackedFiles,     \* this.trackedFiles (line 12)
    projectRoot,      \* this.projectRoot (line 13)
    dependencyGraph,  \* this.dependencyGraph (line 14)
    cache,            \* this.cache (line 27): key -> [value, expiry]
    now,              \* Date.now(), in milliseconds
    last,             \* the last public call or environment event and its outcome
    goneTracked,      \* history: paths removed from the substrate while tracked
    budget,           \* history: what is left of the bounds below
    denied,           \* substrate: the paths whose listing or reading is refused
    watchers,         \* the watch subscriptions taken and not cancelled
    calls,            \* the startTracking and refresh calls in flight, by call slot
    writeLog,         \* history: the call slots in the order their writes alternate
    cacheHistory,     \* history: for each cache key, the last set and whether it stands
    cmmandsInstance,  \* the module's cmmandsInstance: null or the instance
    provenance        \* history: for each path committed, the call that read it and when

vars == <<fs, commandRegistry, trackedFiles, projectRoot, dependencyGraph,
          cache, now, last, goneTracked, budget, denied, watchers, calls, writeLog,
          cacheHistory, cmmandsInstance, provenance>>

-----------------------------------------------------------------------------
(* Bounds of the model *)

MaxPasses == 3
MaxFsChanges == 1
MaxTicks == 1
MaxDispatchPasses == 1
TreeDepth == 11
MaxScanPasses == 2
MaxCalls == 2
MaxFaultPasses == 2
MaxDenials == 1
MaxFaultTicks == 1
MaxCacheTicks == 2
MaxInitCalls == 3

-----------------------------------------------------------------------------
(* Strings *)

LowerOf ==
    [A |-> "a", B |-> "b", C |-> "c", D |-> "d", E |-> "e", F |-> "f", G |-> "g",
     H |-> "h", I |-> "i", J |-> "j", K |-> "k", L |-> "l", M |-> "m", N |-> "n",
     O |-> "o", P |-> "p", Q |-> "q", R |-> "r", S |-> "s", T |-> "t", U |-> "u",
     V |-> "v", W |-> "w", X |-> "x", Y |-> "y", Z |-> "z"]

LowerAlnum ==
    {"a", "b", "c", "d", "e", "f", "g", "h", "i", "j", "k", "l", "m", "n", "o",
     "p", "q", "r", "s", "t", "u", "v", "w", "x", "y", "z",
     "0", "1", "2", "3", "4", "5", "6", "7", "8", "9"}

\* String.prototype.toLowerCase
toLowerCase(s) ==
    [i \in 1..Len(s) |-> IF s[i] \in DOMAIN LowerOf THEN LowerOf[s[i]] ELSE s[i]]

\* String.prototype.includes
includes(s, t) ==
    /\ Len(t) <= Len(s)
    /\ \E i \in 0..(Len(s) - Len(t)) : SubSeq(s, i + 1, i + Len(t)) = t

\* s.replace(/[^a-z0-9]/g, '-')
replaceNonAlnum(s) ==
    [i \in 1..Len(s) |-> IF s[i] \in LowerAlnum THEN s[i] ELSE "-"]

\* String.prototype.split with a one-character separator class
RECURSIVE splitFrom(_, _, _)
splitFrom(s, seps, word) ==
    IF s = << >> THEN <<word>>
    ELSE IF Head(s) \in seps THEN <<word>> \o splitFrom(Tail(s), seps, << >>)
    ELSE splitFrom(Tail(s), seps, Append(word, Head(s)))

split(s, seps) == splitFrom(s, seps, << >>)

\* Array.prototype.join of strings
RECURSIVE joinStrings(_, _)
joinStrings(list, sep) ==
    IF list = << >> THEN << >>
    ELSE IF Len(list) = 1 THEN list[1]
    ELSE list[1] \o sep \o joinStrings(Tail(list), sep)

lastIndexOf(s, c) ==
    IF \E i \in 1..Len(s) : s[i] = c
    THEN CHOOSE i \in 1..Len(s) : s[i] = c /\ \A j \in (i + 1)..Len(s) : s[j] # c
    ELSE 0

\* the decimal digit of an array index below ten
digit(n) == <<"0", "1", "2", "3", "4", "5", "6", "7", "8", "9">>[n + 1]

-----------------------------------------------------------------------------
(* this.path: the path helper (_createUniversalPath is not in src/; these   *)
(* are the POSIX meanings of the members the code calls)                    *)

pathJoin(dir, name) == dir \o <<"/">> \o name   \* "/"

pathBasename(p) == SubSeq(p, lastIndexOf(p, "/") + 1, Len(p))

pathExtname(p) ==
    LET b == pathBasename(p)
        i == lastIndexOf(b, ".")
    IN  IF i <= 1 THEN << >> ELSE SubSeq(b, i, Len(b))

\* path.basename(fileName, ext)
pathBasenameExt(p, ext) ==
    LET b == pathBasename(p)
    IN  IF /\ ext # << >>
           /\ Len(b) > Len(ext)
           /\ SubSeq(b, Len(b) - Len(ext) + 1, Len(b)) = ext
        THEN SubSeq(b, 1, Len(b) - Len(ext))
        ELSE b

pathResolve(p) == p

-----------------------------------------------------------------------------
(* JavaScript Map, in insertion order *)

MapKeys(m) == [i \in 1..Len(m) |-> m[i].k]

MapKeySet(m) == {m[i].k : i \in 1..Len(m)}

MapHas(m, key) == key \in MapKeySet(m)

MapIndex(m, key) == CHOOSE i \in 1..Len(m) : m[i].k = key

MapGet(m, key) == m[MapIndex(m, key)].v

\* Map.prototype.set: an existing key keeps its place
MapSet(m, key, val) ==
    IF MapHas(m, key)
    THEN [m EXCEPT ![MapIndex(m, key)] = [k |-> key, v |-> val]]
    ELSE Append(m, [k |-> key, v |-> val])

MapDelete(m, key) == SelectSeq(m, LAMBDA e : e.k # key)

-----------------------------------------------------------------------------
(* The storage substrate: a fixed directory skeleton under the root; each   *)
(* file of it is present with some content, or absent.                      *)

Root == <<"/","p">>   \* "/p"
DirGit == pathJoin(Root, <<".","g","i","t">>)   \* ".git"
DirLib == pathJoin(Root, <<"l","i","b">>)   \* "lib"
DirLibModules == pathJoin(DirLib, <<"n","o","d","e","_","m","o","d","u","l","e","s">>)   \* "node_modules"
DirLibModulesD == pathJoin(DirLibModules, <<"d">>)   \* "d"

\* the directory n levels below the root on the chain of nested directories
RECURSIVE DirDeep(_)
DirDeep(n) == IF n = 0 THEN Root ELSE pathJoin(DirDeep(n - 1), <<"d","e","e","p">>)   \* "deep"

\* directory entries, in the order a listing returns them
Tree ==
    [i \in 1..TreeDepth |->
        [parent |-> DirDeep(i - 1), name |-> <<"d","e","e","p">>, isDirectory |-> TRUE]] \o   \* "deep"
    << [parent |-> Root, name |-> <<".","g","i","t">>, isDirectory |-> TRUE],   \* ".git"
       [parent |-> Root, name |-> <<"a",".","t","x","t">>, isDirectory |-> FALSE],   \* "a.txt"
       [parent |-> Root, name |-> <<"b",".","j","s">>, isDirectory |-> FALSE],   \* "b.js"
       [parent |-> Root, name |-> <<"l","i","b">>, isDirectory |-> TRUE],   \* "lib"
       [parent |-> Root, name |-> <<"p","a","c","k","a","g","e",".","j","s","o","n">>, isDirectory |-> FALSE],   \* "package.json"
       [parent |-> DirGit, name |-> <<"c",".","j","s">>, isDirectory |-> FALSE],   \* "c.js"
       [parent |-> DirLib, name |-> <<"b",".","t","s">>, isDirectory |-> FALSE],   \* "b.ts"
       [parent |-> DirLib, name |-> <<"n","o","d","e","_","m","o","d","u","l","e","s">>, isDirectory |-> TRUE],   \* "node_modules"
       [parent |-> DirLibModules, name |-> <<"d">>, isDirectory |-> TRUE],   \* "d"
       [parent |-> DirLibModulesD, name |-> <<"e",".","j","s">>, isDirectory |-> FALSE] >>   \* "e.js"

FileATxt == pathJoin(Root, <<"a",".","t","x","t">>)   \* "a.txt"
FileBJs == pathJoin(Root, <<"b",".","j","s">>)   \* "b.js"
FilePackageJson == pathJoin(Root, <<"p","a","c","k","a","g","e",".","j","s","o","n">>)   \* "package.json"
FileGitCJs == pathJoin(DirGit, <<"c",".","j","s">>)   \* "c.js"
FileLibBTs == pathJoin(DirLib, <<"b",".","t","s">>)   \* "b.ts"
FileModulesEJs == pathJoin(DirLibModulesD, <<"e",".","j","s">>)   \* "e.js"

FilePaths ==
    {pathJoin(Tree[i].parent, Tree[i].name) : i \in {j \in 1..Len(Tree) : ~Tree[j].isDirectory}}

DirPaths ==
    {Root} \cup
    {pathJoin(Tree[i].parent, Tree[i].name) : i \in {j \in 1..Len(Tree) : Tree[j].isDirectory}}

\* file content, one lexical item per line
Item(kind, text) == [k |-> kind, s |-> text]

EmptyContent == << >>
ContentHello == <<Item("text", <<"h","e","l","l","o">>)>>   \* "hello"
\* function foo(){}
ContentFoo == <<Item("function", <<"f","o","o">>)>>   \* "foo"
\* function foo(){} twice
ContentFooTwice == <<Item("function", <<"f","o","o">>), Item("function", <<"f","o","o">>)>>   \* "foo", "foo"
\* function f(){} and function foo(){}
ContentShortName == <<Item("function", <<"f">>), Item("function", <<"f","o","o">>)>>   \* "f", "foo"
\* require('./lib/b.ts')
ContentRequireLib == <<Item("require", <<".","/","l","i","b","/","b",".","t","s">>)>>   \* "./lib/b.ts"
\* function foo(){} and require('../b.js')
ContentRequireUp == <<Item("function", <<"f","o","o">>), Item("require", <<".",".","/","b",".","j","s">>)>>   \* "foo", "../b.js"
\* {"scripts": {"build": "..."}}
ContentManifestBuild == <<Item("manifest", << >>), Item("script", <<"b","u","i","l","d">>)>>   \* "build"
\* {"scripts": {"Open File": "...", "open-file": "..."}}
ContentManifestSpellings ==
    <<Item("manifest", << >>), Item("script", <<"O","p","e","n"," ","F","i","l","e">>), Item("script", <<"o","p","e","n","-","f","i","l","e">>)>>   \* "Open File", "open-file"
\* {"scripts": {"build": "..."} cut before the last brace: JSON.parse rejects it
ContentManifestBad == <<Item("badjson", << >>), Item("script", <<"b","u","i","l","d">>)>>   \* "build"

\* the contents the environment may give each file
ContentChoices(p) ==
    IF p = FileATxt THEN {EmptyContent, ContentHello}
    ELSE IF p = FileBJs THEN {ContentFoo, ContentRequireLib}
    ELSE IF p = FilePackageJson THEN {ContentManifestBuild, ContentManifestBad}
    ELSE IF p = FileLibBTs THEN {ContentRequireUp}
    ELSE {ContentFoo}

Present(content) == [exists |-> TRUE, content |-> content]
Absent == [exists |-> FALSE, content |-> << >>]

\* fsp.readFile and fsp.readdir reject with an error other than ENOENT, which
\* the substrate rethrows
throwsOnRead(p) == p \in denied
throwsOnList(dir) == dir \in denied

\* fs.readFile of the Node substrate: a missing file reads as ''
readFile(fsv, p) ==
    IF p \in DOMAIN fsv /\ fsv[p].exists THEN fsv[p].content ELSE << >>

\* fs.readdir: [{name, isDirectory}]; the directories the substrate has no
\* record of are always there
readdir(fsv, dir) ==
    LET listed == SelectSeq(Tree, LAMBDA e :
                      /\ e.parent = dir
                      /\ IF pathJoin(e.parent, e.name) \in DOMAIN fsv
                         THEN fsv[pathJoin(e.parent, e.name)].exists
                         ELSE e.isDirectory)
    IN  [i \in 1..Len(listed) |->
            [name |-> listed[i].name, isDirectory |-> listed[i].isDirectory]]

\* as IsIgnoredName, with \.git missing from the pattern
IsIgnoredName_withoutGit(name) ==
    name \in {<<"n","o","d","e","_","m","o","d","u","l","e","s">>, <<"d","i","s","t">>, <<"b","u","i","l","d">>}   \* "node_modules", "dist", "build"

\* entry.name.match(/^(node_modules|\.git|dist|build)$/)
IsIgnoredName(name) ==
    name \in {<<"n","o","d","e","_","m","o","d","u","l","e","s">>, <<".","g","i","t">>, <<"d","i","s","t">>, <<"b","u","i","l","d">>}   \* "node_modules", ".git", "dist", "build"

-----------------------------------------------------------------------------
(* Language detection, dependency extraction and analysis *)

HasItem(content, kind) == \E i \in 1..Len(content) : content[i].k = kind

ItemTexts(content, kind) ==
    LET sel == SelectSeq(content, LAMBDA it : it.k = kind)
    IN  [i \in 1..Len(sel) |-> sel[i].s]

\* Array.from(new Set(list))
RECURSIVE distinct(_)
distinct(list) ==
    IF list = << >> THEN << >>
    ELSE LET rest == distinct(SubSeq(list, 1, Len(list) - 1))
             x == list[Len(list)]
         IN  IF \E i \in 1..Len(rest) : rest[i] = x THEN rest ELSE Append(rest, x)

\* extMap of _detectAdvancedLanguage, for the extensions of Tree
extMap(ext) ==
    IF ext \in {<<".","j","s">>, <<".","j","s","x">>, <<".","m","j","s">>, <<".","c","j","s">>} THEN "javascript"   \* ".js", ".jsx", ".mjs", ".cjs"
    ELSE IF ext \in {<<".","t","s">>, <<".","t","s","x">>} THEN "typescript"   \* ".ts", ".tsx"
    ELSE IF ext \in {<<".","p","y">>, <<".","p","y","w">>} THEN "python"   \* ".py", ".pyw"
    ELSE IF ext \in {<<".","j","s","o","n">>, <<".","j","s","o","n","5">>} THEN "json"   \* ".json", ".json5"
    ELSE IF ext \in {<<".","m","d">>, <<".","m","a","r","k","d","o","w","n">>} THEN "markdown"   \* ".md", ".markdown"
    ELSE IF ext \in {<<".","t","x","t">>, <<".","t","e","x","t">>} THEN "text"   \* ".txt", ".text"
    ELSE "none"

\* the content signatures come first; of them the items of this model can
\* match only python's /import\s+\w+/
_detectAdvancedLanguage(content, fileName, ext) ==
    IF HasItem(content, "import") THEN "python"
    ELSE IF extMap(ext) # "none" THEN extMap(ext)
    ELSE IF extMap(toLowerCase(fileName)) # "none" THEN extMap(toLowerCase(fileName))
    ELSE "text"

\* the classifier used while the graph is built
_detectLanguage(content, fileName, ext) ==
    _detectAdvancedLanguage(content, fileName, ext)

\* parser.analyzeDependencies
analyzeDependencies(code, language) ==
    IF language \in {"javascript", "typescript"} THEN distinct(ItemTexts(code, "require"))
    ELSE IF language = "python" THEN distinct(ItemTexts(code, "import"))
    ELSE << >>

\* ai.analyze: functions and classes by the language's patterns, metrics,
\* smells, suggestions, dependencies
analyze(content, language) ==
    LET names == IF language \in {"javascript", "typescript"}
                 THEN ItemTexts(content, "function") ELSE << >>
        classNames == IF language \in {"javascript", "typescript"}
                      THEN ItemTexts(content, "class") ELSE << >>
        lines == Len(content)
        smells == IF lines > 50 THEN <<"LONG_METHOD">> ELSE << >>
    IN  [functions |-> [i \in 1..Len(names) |-> [name |-> names[i], params |-> << >>]],
         classes |-> [i \in 1..Len(classNames) |-> [name |-> classNames[i]]],
         metrics |-> [lines |-> lines, complexity |-> 1],
         codeSmells |-> smells,
         suggestions |-> smells,
         dependencies |-> analyzeDependencies(content, language)]

\* security.scan: the security engine is not in src/; no item of this model
\* is an issue
securityScan(content) == << >>

-----------------------------------------------------------------------------
(* Command synthesis *)

\* the closure of a command: the method it calls and what it captured
Action(kind, filePath, content, arg) ==
    [kind |-> kind, path |-> filePath, content |-> content, arg |-> arg]

\* owner is a history field: the file whose synthesis made the descriptor
Command(name, owner, action, description, category, tags) ==
    [name |-> name,
     owner |-> owner,
     action |-> action,
     description |-> description,
     category |-> category,
     tags |-> tags]

\* as IsManifest, with a parser that takes any text
IsManifest_anyText(content) == content # << >>

\* JSON.parse(content) succeeds
IsManifest(content) == content # << >> /\ content[1].k = "manifest"

functionCommands(filePath, content, safeName, functions) ==
    [i \in 1..(2 * Len(functions)) |->
        LET func == functions[(i + 1) \div 2]
        IN  IF i % 2 = 1
            THEN Command(<<"e","x","e","c","u","t","e",":">> \o safeName \o <<":">> \o func.name, filePath,   \* "execute:", ":"
                Action("_executeFunctionWithUI", filePath, content, func.name),
                         <<"E","x","e","c","u","t","e"," ">> \o func.name \o <<"(">>   \* "Execute ", "("
                             \o joinStrings(func.params, <<","," ">>) \o <<")">>,   \* ", ", ")"
                         "execution", <<"function", "execute">>)
            ELSE Command(<<"t","e","s","t",":">> \o safeName \o <<":">> \o func.name, filePath,   \* "test:", ":"
                Action("_generateTestForFunction", filePath, << >>, func.name),
                         <<"G","e","n","e","r","a","t","e"," ","t","e","s","t"," ","f","o","r"," ">> \o func.name \o <<"(",")">>,   \* "Generate test for ", "()"
                         "testing", <<"test", "generate">>)]

classCommands(filePath, content, safeName, classes) ==
    [i \in 1..Len(classes) |->
        Command(<<"i","n","s","t","a","n","t","i","a","t","e",":">> \o safeName \o <<":">> \o classes[i].name, filePath,   \* "instantiate:", ":"
                Action("_instantiateClassWithUI", filePath, content, classes[i].name),
                <<"C","r","e","a","t","e"," ">> \o classes[i].name \o <<" ","i","n","s","t","a","n","c","e">>,   \* "Create ", " instance"
                "execution", <<"class", "instantiate">>)]

securityCommands(filePath, content, safeName, securityIssues) ==
    [i \in 1..Len(securityIssues) |->
        Command(<<"s","e","c","u","r","i","t","y",":","f","i","x",":">> \o safeName \o <<":">> \o <<digit(i - 1)>>, filePath,   \* "security:fix:", ":"
                Action("_fixSecurityIssue", filePath, content, securityIssues[i]),
                <<"F","i","x"," ","s","e","c","u","r","i","t","y"," ","i","s","s","u","e",":"," ">> \o securityIssues[i] \o <<".",".",".">>,   \* "Fix security issue: ", "..."
                "security", <<"security", "fix">>)]

scriptCommands(filePath, content) ==
    LET scripts == ItemTexts(content, "script")
    IN  [i \in 1..Len(scripts) |->
            Command(<<"r","u","n",":">> \o scripts[i], filePath,   \* "run:"
                Action("_runNpmScriptWithOutput", << >>, << >>, scripts[i]),
                    <<"R","u","n",":"," ">> \o scripts[i] \o <<" ","-"," ",".",".",".">>, "npm", <<"npm", "run">>)]   \* "Run: ", " - ..."

_createAdvancedCommands(filePath, fileName, content, language, analysis, securityIssues) ==
    LET baseName == pathBasenameExt(fileName, pathExtname(fileName))
        safeName == replaceNonAlnum(toLowerCase(baseName))
        isJs == language \in {"javascript", "typescript"}
    IN  << Command(<<"f","i","l","e",":","o","p","e","n",":">> \o safeName, filePath,   \* "file:open:"
                Action("_executeAdvancedOpen", filePath, content, << >>),
                   <<"O","p","e","n"," ">> \o fileName \o <<" ","w","i","t","h"," ","a","n","a","l","y","s","i","s">>,   \* "Open ", " with analysis"
                   "file", <<"view", "analyze">>),
           Command(<<"f","i","l","e",":","e","d","i","t",":">> \o safeName, filePath,   \* "file:edit:"
                Action("_executeAdvancedEdit", filePath, content, << >>),
                   <<"E","d","i","t"," ">> \o fileName \o <<" ","w","i","t","h"," ","s","y","n","t","a","x"," ","h","i","g","h","l","i","g","h","t","i","n","g">>,   \* "Edit ", " with syntax highlighting"
                   "file", <<"edit", "modify">>),
           Command(<<"a","n","a","l","y","z","e",":","m","e","t","r","i","c","s",":">> \o safeName, filePath,   \* "analyze:metrics:"
                Action("_showAdvancedMetrics", filePath, << >>, << >>),
                   <<"S","h","o","w"," ","c","o","d","e"," ","m","e","t","r","i","c","s"," ","f","o","r"," ">> \o fileName,   \* "Show code metrics for "
                   "analysis", <<"metrics", "quality">>) >>
        \o (IF Len(analysis.codeSmells) > 0
            THEN <<Command(<<"r","e","f","a","c","t","o","r",":","s","m","e","l","l","s",":">> \o safeName, filePath,   \* "refactor:smells:"
                Action("_refactorCodeSmells", filePath, << >>, << >>), <<"R","e","f","a","c","t","o","r"," ","c","o","d","e"," ","s","m","e","l","l","s"," ","i","n"," ">> \o fileName,   \* "Refactor code smells in "
                           "refactor", <<"cleanup", "refactor">>)>>
            ELSE << >>)
        \o (IF isJs THEN functionCommands(filePath, content, safeName, analysis.functions) ELSE << >>)
        \o (IF isJs THEN classCommands(filePath, content, safeName, analysis.classes) ELSE << >>)
        \o (IF isJs /\ Len(analysis.dependencies) > 0
            THEN <<Command(<<"d","e","p","s",":","s","h","o","w",":">> \o safeName, filePath,   \* "deps:show:"
                Action("_showDependencies", filePath, << >>, << >>), <<"S","h","o","w"," ","d","e","p","e","n","d","e","n","c","i","e","s"," ","f","o","r"," ">> \o fileName,   \* "Show dependencies for "
                           "dependencies", <<"deps", "graph">>)>>
            ELSE << >>)
        \o securityCommands(filePath, content, safeName, securityIssues)
        \o (IF fileName = <<"p","a","c","k","a","g","e",".","j","s","o","n">> /\ IsManifest(content)   \* "package.json"
            THEN scriptCommands(filePath, content)
                 \o (IF HasItem(content, "dependency")
                     THEN <<Command(<<"d","e","p","s",":","a","u","d","i","t">>, filePath,   \* "deps:audit"
                Action("_auditDependencies", filePath, << >>, << >>),
                                    <<"A","u","d","i","t"," ","p","a","c","k","a","g","e"," ","d","e","p","e","n","d","e","n","c","i","e","s">>,   \* "Audit package dependencies"
                                    "security", <<"audit", "deps">>)>>
                     ELSE << >>)
            ELSE << >>)
        \o (IF fileName \in {<<"d","o","c","k","e","r","-","c","o","m","p","o","s","e",".","y","m","l">>, <<"d","o","c","k","e","r","-","c","o","m","p","o","s","e",".","y","a","m","l">>}   \* "docker-compose.yml", "docker-compose.yaml"
            THEN <<Command(<<"d","o","c","k","e","r",":","c","o","m","p","o","s","e",":","u","p">>, filePath,   \* "docker:compose:up"
                Action("_dockerComposeUp", filePath, << >>, << >>),
                           <<"d","o","c","k","e","r","-","c","o","m","p","o","s","e"," ","u","p">>, "docker", <<"docker", "compose">>)>>   \* "docker-compose up"
            ELSE << >>)
        \o (IF Len(analysis.suggestions) > 0
            THEN <<Command(<<"a","i",":","s","u","g","g","e","s","t","i","o","n","s",":">> \o safeName, filePath,   \* "ai:suggestions:"
                Action("_showAISuggestionsWithExamples", filePath, << >>, << >>), <<"A","I"," ","s","u","g","g","e","s","t","i","o","n","s"," ","f","o","r"," ">> \o fileName,   \* "AI suggestions for "
                           "ai", <<"ai", "suggestions">>)>>
            ELSE << >>)
        \o (IF analysis.metrics.complexity > 15 \/ analysis.metrics.lines > 100
            THEN <<Command(<<"p","e","r","f",":","a","n","a","l","y","z","e",":">> \o safeName, filePath,   \* "perf:analyze:"
                Action("_analyzePerformance", filePath, << >>, << >>), <<"P","e","r","f","o","r","m","a","n","c","e"," ","a","n","a","l","y","s","i","s"," ","f","o","r"," ">> \o fileName,   \* "Performance analysis for "
                           "performance", <<"performance", "optimize">>)>>
            ELSE << >>)

RECURSIVE allFunctionNames(_)
allFunctionNames(tracked) ==
    IF tracked = << >> THEN << >>
    ELSE LET fns == Head(tracked).v.analysis.functions
         IN  [i \in 1..Len(fns) |-> fns[i].name] \o allFunctionNames(Tail(tracked))

_generateCrossFileCommands(tracked) ==
    LET all == allFunctionNames(tracked)
        duplicates == {all[i] : i \in {j \in 1..Len(all) :
                          \E h \in 1..Len(all) : h # j /\ all[h] = all[j]}}
    IN  << Command(<<"s","e","a","r","c","h",":","f","u","n","c","t","i","o","n","s">>, << >>,   \* "search:functions"
                Action("_globalFunctionSearch", << >>, << >>, << >>),
                   <<"S","e","a","r","c","h"," ","f","o","r"," ","f","u","n","c","t","i","o","n","s"," ","a","c","r","o","s","s"," ","a","l","l"," ","f","i","l","e","s">>,   \* "Search for functions across all files"
                   "search", <<"search", "global">>),
           Command(<<"s","e","a","r","c","h",":","i","m","p","o","r","t","s">>, << >>,   \* "search:imports"
                Action("_globalImportSearch", << >>, << >>, << >>),
                   <<"S","e","a","r","c","h"," ","f","o","r"," ","i","m","p","o","r","t","s"," ","a","c","r","o","s","s"," ","a","l","l"," ","f","i","l","e","s">>,   \* "Search for imports across all files"
                   "search", <<"search", "imports">>) >>
        \o (IF duplicates # {}
            THEN <<Command(<<"r","e","f","a","c","t","o","r",":","d","u","p","l","i","c","a","t","e","-","f","u","n","c","t","i","o","n","s">>, << >>,   \* "refactor:duplicate-functions"
                Action("_refactorDuplicateFunctions", << >>, << >>, << >>),
                           <<"R","e","f","a","c","t","o","r"," ">> \o <<digit(Cardinality(duplicates))>>   \* "Refactor "
                               \o <<" ","d","u","p","l","i","c","a","t","e"," ","f","u","n","c","t","i","o","n"," ","n","a","m","e","s">>,   \* " duplicate function names"
                           "refactor", <<"refactor", "duplicates">>)>>
            ELSE << >>)

\* commands.forEach(cmd => this.commandRegistry.set(cmd.name, cmd))
RECURSIVE registerAll(_, _)
registerAll(registry, commands) ==
    IF commands = << >> THEN registry
    ELSE registerAll(MapSet(registry, Head(commands).name, Head(commands)), Tail(commands))

-----------------------------------------------------------------------------
(* The dependency graph *)

GraphNode(fullPath, name, language, dependencies) ==
    [path |-> fullPath, name |-> name, language |-> language,
     dependencies |-> dependencies, dependents |-> {}]

\* the for loop over one directory's entries; a read that throws leaves the
\* loop for the catch of line 894
RECURSIVE scanEntries(_, _, _, _, _)
scanEntries(fsv, currentPath, entries, queue, graph) ==
    IF entries = << >> THEN [queue |-> queue, graph |-> graph]
    ELSE LET entry == Head(entries)
             fullPath == pathJoin(currentPath, entry.name)
         IN  IF entry.isDirectory
             THEN scanEntries(fsv, currentPath, Tail(entries),
                              IF ~IsIgnoredName(entry.name)
                              THEN Append(queue, fullPath) ELSE queue,
                              graph)
             ELSE IF throwsOnRead(fullPath)
             THEN [queue |-> queue, graph |-> graph]
             ELSE LET content == readFile(fsv, fullPath)
                      language == _detectLanguage(content, entry.name,
                                                  pathExtname(entry.name))
                      dependencies == analyzeDependencies(content, language)
                  IN  scanEntries(fsv, currentPath, Tail(entries), queue,
                                  MapSet(graph, fullPath,
                                         GraphNode(fullPath, entry.name, language,
                                                   dependencies)))

\* as walkGraph, with the try around the while loop: a refused listing ends
\* the walk
RECURSIVE walkGraph_abortOnError(_, _, _, _)
walkGraph_abortOnError(fsv, queue, graph, listed) ==
    IF queue = << >> THEN [graph |-> graph, listed |-> listed]
    ELSE LET currentPath == Head(queue)
             r == scanEntries(fsv, currentPath, readdir(fsv, currentPath),
                              Tail(queue), graph)
         IN  IF throwsOnList(currentPath)
             THEN [graph |-> graph, listed |-> listed \cup {currentPath}]
             ELSE walkGraph_abortOnError(fsv, r.queue, r.graph,
                                         listed \cup {currentPath})

\* the while loop over the queue; listed collects the directories read
RECURSIVE walkGraph(_, _, _, _)
walkGraph(fsv, queue, graph, listed) ==
    IF queue = << >> THEN [graph |-> graph, listed |-> listed]
    ELSE LET currentPath == Head(queue)
             r == IF throwsOnList(currentPath)
                  THEN [queue |-> Tail(queue), graph |-> graph]
                  ELSE scanEntries(fsv, currentPath, readdir(fsv, currentPath),
                                   Tail(queue), graph)
         IN  walkGraph(fsv, r.queue, r.graph, listed \cup {currentPath})

\* "Build dependents relationships": a node with at least one dependency
\* collects every node one of whose references contains its name or path
buildDependents(graph) ==
    [i \in 1..Len(graph) |->
        LET filePath == graph[i].k
            fileInfo == graph[i].v
            mentioning == {graph[h].k : h \in {j \in 1..Len(graph) :
                              \E d \in 1..Len(graph[j].v.dependencies) :
                                  \/ includes(graph[j].v.dependencies[d], fileInfo.name)
                                  \/ includes(graph[j].v.dependencies[d], filePath)}}
        IN  IF fileInfo.dependencies = << >> THEN graph[i]
            ELSE [k |-> filePath,
                  v |-> [fileInfo EXCEPT !.dependents = @ \cup mentioning]]]

_buildDependencyGraph(fsv, graph, rootPath) ==
    LET w == walkGraph(fsv, <<rootPath>>, graph, {})
    IN  [graph |-> buildDependents(w.graph), listed |-> w.listed]

-----------------------------------------------------------------------------
(* Discovery of the files to track (scan of spec.md 4.1) *)

ScanMaxDepth == 10

RECURSIVE findFiles(_, _, _, _)
findFiles(fsv, queue, files, listed) ==
    IF queue = << >> THEN [files |-> files, listed |-> listed]
    ELSE LET dir == Head(queue).dir
             depth == Head(queue).depth
             entries == IF throwsOnList(dir) THEN << >> ELSE readdir(fsv, dir)
             here == SelectSeq(entries, LAMBDA e : ~e.isDirectory)
             below == SelectSeq(entries, LAMBDA e :
                          e.isDirectory /\ ~IsIgnoredName(e.name)
                              /\ depth + 1 <= ScanMaxDepth)
         IN  findFiles(fsv,
                       Tail(queue) \o [i \in 1..Len(below) |->
                           [dir |-> pathJoin(dir, below[i].name), depth |-> depth + 1]],
                       files \o [i \in 1..Len(here) |-> pathJoin(dir, here[i].name)],
                       listed \cup {dir})

_findAllFiles(fsv, rootPath) ==
    findFiles(fsv, <<[dir |-> rootPath, depth |-> 0]>>, << >>, {})

-----------------------------------------------------------------------------
(* Tracking one file *)

CacheTtlMs == 300000

cacheKey(filePath) == <<"a","n","a","l","y","s","i","s","_">> \o filePath   \* "analysis_"

\* as cacheAfterGet, with an entry that expires when its time is reached
cacheAfterGet_expiresAtDeadline(c, key, t) ==
    IF MapHas(c, key) /\ MapGet(c, key).expiry # 0 /\ t >= MapGet(c, key).expiry
    THEN MapDelete(c, key) ELSE c

\* cache.get: an entry past its expiry is deleted and reads as null
cacheAfterGet(c, key, t) ==
    IF MapHas(c, key) /\ MapGet(c, key).expiry # 0 /\ t > MapGet(c, key).expiry
    THEN MapDelete(c, key) ELSE c

cacheSet(c, key, value, t, ttlMs) ==
    MapSet(c, key, [value |-> value, expiry |-> t + ttlMs])

\* the file info stored at lines 959-968
TrackedEntry(filePath, fileName, language, analysis, securityIssues, commands) ==
    [path |-> filePath,
     name |-> fileName,
     language |-> language,
     analysis |-> analysis,
     securityIssues |-> securityIssues,
     commands |-> [i \in 1..Len(commands) |-> commands[i].name],
     dependencies |-> analysis.dependencies,
     metrics |-> analysis.metrics]

\* lines 927-968, what follows the read of content that is not empty;
\* st is [commandRegistry, trackedFiles, cache, dependencyGraph]
commitFile(st, t, filePath, content) ==
    LET fileName == pathBasename(filePath)
        ext == toLowerCase(pathExtname(filePath))
        language == _detectAdvancedLanguage(content, fileName, ext)
        analysis == analyze(content, language)
        securityIssues == securityScan(content)
        commands == _createAdvancedCommands(filePath, fileName, content, language,
                                            analysis, securityIssues)
    IN  [st EXCEPT
            !.cache = cacheSet(@, cacheKey(filePath), commands, t, CacheTtlMs),
            !.commandRegistry = registerAll(@, commands),
            !.trackedFiles = MapSet(@, filePath,
                TrackedEntry(filePath, fileName, language, analysis,
                             securityIssues, commands))]

_generateAdvancedCommandsFromFile(st, fsv, t, filePath) ==
    LET key == cacheKey(filePath)
        st1 == [st EXCEPT !.cache = cacheAfterGet(@, key, t)]
        content == readFile(fsv, filePath)
    IN  IF MapHas(st1.cache, key) THEN st1
        ELSE IF throwsOnRead(filePath) THEN st1
        ELSE IF content = << >> THEN st1
        ELSE commitFile(st1, t, filePath, content)

\* refreshes the graph node of a tracked file from its tracked entry
_updateFileDependencies(st, filePath) ==
    IF ~MapHas(st.trackedFiles, filePath) THEN st
    ELSE LET entry == MapGet(st.trackedFiles, filePath)
             old == IF MapHas(st.dependencyGraph, filePath)
                    THEN MapGet(st.dependencyGraph, filePath).dependents ELSE {}
         IN  [st EXCEPT !.dependencyGraph = MapSet(@, filePath,
                 [GraphNode(filePath, entry.name, entry.language, entry.dependencies)
                     EXCEPT !.dependents = old])]

\* what the call returns: the cached commands (920), nothing (925, 974) or
\* the commands it made (970)
returnedCommands(st, fsv, t, filePath) ==
    LET key == cacheKey(filePath)
        c == cacheAfterGet(st.cache, key, t)
        content == readFile(fsv, filePath)
    IN  IF MapHas(c, key) THEN MapGet(c, key).value
        ELSE IF throwsOnRead(filePath) THEN << >>
        ELSE IF content = << >> THEN << >>
        ELSE MapGet(commitFile(st, t, filePath, content).cache, key).value

\* the call reaches line 924 and the read rejects
readRaises(st, t, filePath) ==
    /\ ~MapHas(cacheAfterGet(st.cache, cacheKey(filePath), t), cacheKey(filePath))
    /\ throwsOnRead(filePath)

\* the record of a call that ended in the catch of line 972: the maps before
\* and after it, what it returned, and the files the loop had left
RaisedCall(st, after, fsv, t, files) ==
    [path |-> Head(files), at |-> t,
     before |-> [cache |-> st.cache, commandRegistry |-> st.commandRegistry,
                 trackedFiles |-> st.trackedFiles],
     after |-> [cache |-> after.cache, commandRegistry |-> after.commandRegistry,
                trackedFiles |-> after.trackedFiles],
     returned |-> returnedCommands(st, fsv, t, Head(files)),
     rest |-> Tail(files)]

\* as trackAll, without the catch of line 972: the first read that rejects
\* ends the loop
RECURSIVE trackAll_stopAtError(_, _, _, _, _)
trackAll_stopAtError(st, fsv, t, files, raised) ==
    IF files = << >> THEN [state |-> st, raised |-> raised]
    ELSE LET after == _generateAdvancedCommandsFromFile(st, fsv, t, Head(files))
         IN  IF readRaises(st, t, Head(files))
             THEN [state |-> after,
                   raised |-> Append(raised, RaisedCall(st, after, fsv, t, files))]
             ELSE trackAll_stopAtError(_updateFileDependencies(after, Head(files)),
                                       fsv, t, Tail(files), raised)

\* the loop of lines 826-834; raised collects the calls whose read rejected
RECURSIVE trackAll(_, _, _, _, _)
trackAll(st, fsv, t, files, raised) ==
    IF files = << >> THEN [state |-> st, raised |-> raised]
    ELSE LET after == _generateAdvancedCommandsFromFile(st, fsv, t, Head(files))
         IN  trackAll(_updateFileDependencies(after, Head(files)),
                      fsv, t, Tail(files),
                      IF readRaises(st, t, Head(files))
                      THEN Append(raised, RaisedCall(st, after, fsv, t, files))
                      ELSE raised)

\* one whole pass of startTracking over an unchanging substrate
trackingPass(st, fsv, t, rootPath) ==
    LET g == _buildDependencyGraph(fsv, st.dependencyGraph, rootPath)
        found == _findAllFiles(fsv, rootPath)
        tracked == trackAll([st EXCEPT !.dependencyGraph = g.graph], fsv, t,
                            found.files, << >>)
        st2 == tracked.state
        crossCommands == _generateCrossFileCommands(st2.trackedFiles)
    IN  [state |-> [st2 EXCEPT !.commandRegistry = registerAll(@, crossCommands)],
         listed |-> g.listed \cup found.listed,
         walked |-> g.listed,
         raised |-> tracked.raised]

\* as refreshClear, without this.trackedFiles.clear()
refreshClear_keepTracked(st) ==
    [commandRegistry |-> << >>, trackedFiles |-> st.trackedFiles,
     cache |-> << >>, dependencyGraph |-> << >>]

\* as refreshClear, without this.cache.clear()
refreshClear_keepCache(st) ==
    [commandRegistry |-> << >>, trackedFiles |-> << >>,
     cache |-> st.cache, dependencyGraph |-> << >>]

\* the five clear() calls of refresh
refreshClear(st) ==
    [commandRegistry |-> << >>, trackedFiles |-> << >>,
     cache |-> << >>, dependencyGraph |-> << >>]

-----------------------------------------------------------------------------
(* Lookup, listing and suggestions *)

SuggestionLimit == 5

NoFilter == [category |-> "", tag |-> "", search |-> << >>]

\* as getCommands, but a category filter switches the tag filter off
getCommands_categoryAlone(registry, filter) ==
    LET commands == [i \in 1..Len(registry) |->
                        [name |-> registry[i].k,
                         description |-> registry[i].v.description,
                         category |-> registry[i].v.category,
                         tags |-> registry[i].v.tags]]
        byCategory == IF filter.category # ""
                      THEN SelectSeq(commands, LAMBDA c : c.category = filter.category)
                      ELSE commands
        byTag == IF filter.tag # "" /\ filter.category = ""
                 THEN SelectSeq(byCategory, LAMBDA c :
                          \E i \in 1..Len(c.tags) : c.tags[i] = filter.tag)
                 ELSE byCategory
        searchLower == toLowerCase(filter.search)
    IN  IF filter.search # << >>
        THEN SelectSeq(byTag, LAMBDA c :
                 \/ includes(toLowerCase(c.name), searchLower)
                 \/ includes(toLowerCase(c.description), searchLower))
        ELSE byTag

\* getCommands: a view per registry entry, then the filters that are set
getCommands(registry, filter) ==
    LET commands == [i \in 1..Len(registry) |->
                        [name |-> registry[i].k,
                         description |-> registry[i].v.description,
                         category |-> registry[i].v.category,
                         tags |-> registry[i].v.tags]]
        byCategory == IF filter.category # ""
                      THEN SelectSeq(commands, LAMBDA c : c.category = filter.category)
                      ELSE commands
        byTag == IF filter.tag # ""
                 THEN SelectSeq(byCategory, LAMBDA c :
                          \E i \in 1..Len(c.tags) : c.tags[i] = filter.tag)
                 ELSE byCategory
        searchLower == toLowerCase(filter.search)
    IN  IF filter.search # << >>
        THEN SelectSeq(byTag, LAMBDA c :
                 \/ includes(toLowerCase(c.name), searchLower)
                 \/ includes(toLowerCase(c.description), searchLower))
        ELSE byTag

_findCommandSuggestions(registry, query) ==
    LET commands == getCommands(registry, NoFilter)
        queryLower == toLowerCase(query)
        words == split(queryLower, {":", "-", "_"})
        suggestions == SelectSeq(commands, LAMBDA cmd :
            LET nameLower == toLowerCase(cmd.name)
                descLower == toLowerCase(cmd.description)
            IN  \/ includes(nameLower, queryLower)
                \/ includes(descLower, queryLower)
                \/ \A w \in 1..Len(words) :
                       includes(nameLower, words[w]) \/ includes(descLower, words[w]))
    IN  SubSeq(suggestions, 1, IF Len(suggestions) < SuggestionLimit
                               THEN Len(suggestions) ELSE SuggestionLimit)

-----------------------------------------------------------------------------
(* State, events and the public surface *)

NoRoot == << >>

\* let cmmandsInstance = null (line 1845), and the instance line 1852 makes
NoInstance == "null"
TheInstance == "CmmandsUniversal"

State ==
    [commandRegistry |-> commandRegistry, trackedFiles |-> trackedFiles,
     cache |-> cache, dependencyGraph |-> dependencyGraph]

Install(st) ==
    /\ commandRegistry' = st.commandRegistry
    /\ trackedFiles' = st.trackedFiles
    /\ cache' = st.cache
    /\ dependencyGraph' = st.dependencyGraph

\* what the last call or environment event was and how it ended; after is the
\* event before it, listed the directories a pass read, walked those of them
\* that _buildDependencyGraph read, raised the calls of
\* _generateAdvancedCommandsFromFile of a pass that ended in its catch, filter
\* the argument of getCommands, trace the calls executeCommand made, in order,
\* verdict what validateCommand said
Event(op, arg, outcome, error) ==
    [op |-> op, arg |-> arg, outcome |-> outcome, error |-> error,
     suggestions |-> << >>, result |-> << >>, listed |-> {}, walked |-> {},
     after |-> "", filter |-> NoFilter, raised |-> << >>,
     trace |-> << >>, verdict |-> "none"]

\* the names callers look up and register
NameSearchFunctions == <<"s","e","a","r","c","h",":","f","u","n","c","t","i","o","n","s">>   \* "search:functions"
NameSearchFunctionz == <<"s","e","a","r","c","h",":","f","u","n","c","t","i","o","n","z">>   \* "search:functionz"
NameRunBuild == <<"r","u","n",":","b","u","i","l","d">>   \* "run:build"
NameNpmBuild == <<"n","p","m","-","b","u","i","l","d">>   \* "npm-build"
NameRunOpenFileSpaced == <<"r","u","n",":","O","p","e","n"," ","F","i","l","e">>   \* "run:Open File"
NameRunOpenFileDashed == <<"r","u","n",":","o","p","e","n","-","f","i","l","e">>   \* "run:open-file"
NameRunOpenFileNormal == <<"r","u","n","-","o","p","e","n","-","f","i","l","e">>   \* "run-open-file"
NameFile == <<"f","i","l","e">>   \* "file"

QueryNames ==
    {NameSearchFunctions, NameSearchFunctionz, NameRunBuild, NameNpmBuild,
     NameRunOpenFileSpaced, NameRunOpenFileDashed, NameRunOpenFileNormal, NameFile}

Filters ==
    {NoFilter,
     [category |-> "file", tag |-> "", search |-> << >>],
     [category |-> "", tag |-> "npm", search |-> << >>],
     [category |-> "", tag |-> "", search |-> <<"B",".","J","S">>],   \* "B.JS"
     [category |-> "file", tag |-> "edit", search |-> << >>],
     [category |-> "file", tag |-> "edit", search |-> <<"B",".","J","S">>]}   \* "B.JS"

\* start of spec.md 4.2, which startTracking calls when the substrate has
\* watch (line 853): one more subscription, on the root
_startFileWatching(subscriptions, rootPath) == Append(subscriptions, rootPath)

\* a pass r resolves the call op(arg)
passResolves(op, arg, r) ==
    /\ Install(r.state)
    /\ last' = [Event(op, arg, "resolved", "")
                    EXCEPT !.listed = r.listed, !.walked = r.walked,
                           !.raised = r.raised, !.after = last.op]

startTracking(rootPath) ==
    /\ budget.passes > 0
    /\ passResolves("startTracking", rootPath,
                    trackingPass(State, fs, now, pathResolve(rootPath)))
    /\ projectRoot' = pathResolve(rootPath)
    /\ budget' = [budget EXCEPT !.passes = @ - 1]
    /\ watchers' = _startFileWatching(watchers, pathResolve(rootPath))
    /\ UNCHANGED <<provenance, cmmandsInstance, cacheHistory, fs, now, goneTracked, denied, calls, writeLog>>

\* refresh before any startTracking resolves a null root and is left out
refresh ==
    /\ budget.passes > 0
    /\ projectRoot # NoRoot
    /\ passResolves("refresh", projectRoot,
                    trackingPass(refreshClear(State), fs, now, pathResolve(projectRoot)))
    /\ budget' = [budget EXCEPT !.passes = @ - 1]
    /\ watchers' = _startFileWatching(watchers, projectRoot)
    /\ UNCHANGED <<provenance, cmmandsInstance, cacheHistory, fs, now, goneTracked, projectRoot, denied, calls, writeLog>>

\* as executeOutcome, with the action run before the security check
executeOutcome_actionFirst(registry, commandName, allowed, actionOk) ==
    IF ~MapHas(registry, commandName)
    THEN Event("executeCommand", commandName, "threw", "Command not found")
    ELSE IF ~actionOk
    THEN [Event("executeCommand", commandName, "threw", "action error")
             EXCEPT !.trace = <<"get", "action">>]
    ELSE IF ~allowed
    THEN [Event("executeCommand", commandName, "threw", "Command blocked")
             EXCEPT !.trace = <<"get", "action", "validateCommand">>,
                    !.verdict = "blocked"]
    ELSE [Event("executeCommand", commandName, "returned", "")
             EXCEPT !.trace = <<"get", "action", "validateCommand">>,
                    !.verdict = "allowed"]

\* how executeCommand ends: allowed is the verdict of security.validateCommand,
\* actionOk whether the action returns or throws
executeOutcome(registry, commandName, allowed, actionOk) ==
    IF ~MapHas(registry, commandName)
    THEN LET suggestions == _findCommandSuggestions(registry, commandName)
         IN  [Event("executeCommand", commandName, "threw", "Command not found")
                 EXCEPT !.suggestions = [i \in 1..Len(suggestions) |-> suggestions[i].name],
                        !.trace = <<"get", "_findCommandSuggestions">>]
    ELSE IF ~allowed
    THEN [Event("executeCommand", commandName, "threw", "Command blocked")
             EXCEPT !.trace = <<"get", "validateCommand">>, !.verdict = "blocked"]
    ELSE IF ~actionOk
    THEN [Event("executeCommand", commandName, "threw", "action error")
             EXCEPT !.trace = <<"get", "validateCommand", "action">>,
                    !.verdict = "allowed"]
    ELSE [Event("executeCommand", commandName, "returned", "")
             EXCEPT !.trace = <<"get", "validateCommand", "action">>,
                    !.verdict = "allowed"]

\* as executeCommand, but a command whose action throws is dropped
executeCommand_evictFailing(commandName, allowed, actionOk) ==
    /\ last' = executeOutcome(commandRegistry, commandName, allowed, actionOk)
    /\ commandRegistry' =
          IF last'.error = "action error" THEN MapDelete(commandRegistry, commandName)
          ELSE commandRegistry
    /\ UNCHANGED <<provenance, cmmandsInstance, cacheHistory, fs, trackedFiles, projectRoot, dependencyGraph,
                   cache, now, goneTracked, budget, denied, watchers, calls, writeLog>>

executeCommand(commandName, allowed, actionOk) ==
    /\ last' = executeOutcome(commandRegistry, commandName, allowed, actionOk)
    /\ UNCHANGED <<provenance, cmmandsInstance, cacheHistory, fs, commandRegistry, trackedFiles, projectRoot, dependencyGraph,
                   cache, now, goneTracked, budget, denied, watchers, calls, writeLog>>

\* a call of the public getCommands
listCommands(filter) ==
    /\ last' = [Event("getCommands", filter.search, "returned", "")
                   EXCEPT !.result = getCommands(commandRegistry, filter),
                          !.filter = filter]
    /\ UNCHANGED <<provenance, cmmandsInstance, cacheHistory, fs, commandRegistry, trackedFiles, projectRoot, dependencyGraph,
                   cache, now, goneTracked, budget, denied, watchers, calls, writeLog>>

\* a call of stopTracking: the class has no member of that name (its methods
\* are those of lines 7-1841), so the call throws a TypeError and nothing
\* that tracking acquired is released
stopTracking ==
    /\ last' = Event("stopTracking", << >>, "threw", "TypeError")
    /\ UNCHANGED <<provenance, cmmandsInstance, cacheHistory, fs, commandRegistry, trackedFiles, projectRoot, dependencyGraph,
                   cache, now, goneTracked, budget, denied, watchers, calls, writeLog>>

-----------------------------------------------------------------------------
(* The environment *)

FsWrite(p, content) ==
    /\ budget.fsChanges > 0
    /\ fs[p] # Present(content)
    /\ fs' = [fs EXCEPT ![p] = Present(content)]
    /\ goneTracked' = goneTracked \ {p}
    /\ last' = Event("fsChange", p, "written", "")
    /\ budget' = [budget EXCEPT !.fsChanges = @ - 1]
    /\ UNCHANGED <<provenance, cmmandsInstance, cacheHistory, commandRegistry, trackedFiles, projectRoot, dependencyGraph,
                   cache, now, denied, watchers, calls, writeLog>>

FsDelete(p) ==
    /\ budget.fsChanges > 0
    /\ fs[p].exists
    /\ fs' = [fs EXCEPT ![p] = Absent]
    /\ goneTracked' = IF MapHas(trackedFiles, p) THEN goneTracked \cup {p}
                      ELSE goneTracked
    /\ last' = Event("fsChange", p, "deleted", "")
    /\ budget' = [budget EXCEPT !.fsChanges = @ - 1]
    /\ UNCHANGED <<provenance, cmmandsInstance, cacheHistory, commandRegistry, trackedFiles, projectRoot, dependencyGraph,
                   cache, now, denied, watchers, calls, writeLog>>

\* the permissions of a file change: from now on a read of it rejects with
\* an error other than ENOENT, which readFile rethrows (line 367)
FsDeny(p) ==
    /\ budget.fsChanges > 0
    /\ p \notin denied
    /\ denied' = denied \cup {p}
    /\ last' = Event("fsChange", p, "denied", "")
    /\ budget' = [budget EXCEPT !.fsChanges = @ - 1]
    /\ UNCHANGED <<provenance, cmmandsInstance, cacheHistory, fs, commandRegistry, trackedFiles, projectRoot, dependencyGraph,
                   cache, now, goneTracked, watchers, calls, writeLog>>

\* time passes: up to the expiry of an entry cached now, or just past it
Tick(ms) ==
    /\ budget.ticks > 0
    /\ now' = now + ms
    /\ budget' = [budget EXCEPT !.ticks = @ - 1]
    /\ UNCHANGED <<provenance, cmmandsInstance, cacheHistory, fs, commandRegistry, trackedFiles, projectRoot, dependencyGraph,
                   cache, last, goneTracked, denied, watchers, calls, writeLog>>

-----------------------------------------------------------------------------
(* Specification *)

FileStates(p) == {Absent} \cup {Present(c) : c \in ContentChoices(p)}

\* the projects tracking starts from: the files under the ignored directories
\* are both there or both missing
InitialFiles ==
    {(FileATxt :> a) @@ (FileBJs :> b) @@ (FilePackageJson :> m) @@ (FileLibBTs :> t)
        @@ (FileGitCJs :> g) @@ (FileModulesEJs :> g) @@ (DirDeep(1) :> Absent) :
        a \in FileStates(FileATxt), b \in FileStates(FileBJs),
        m \in {Absent, Present(ContentManifestBuild)}, t \in FileStates(FileLibBTs),
        g \in {Absent, Present(ContentFoo)}}

\* the projects of the calls that only read the registry
DispatchFiles ==
    {(FileATxt :> a) @@ (FileBJs :> Present(ContentFoo)) @@ (FilePackageJson :> m)
        @@ (FileLibBTs :> Absent) @@ (FileGitCJs :> Present(ContentFoo))
        @@ (FileModulesEJs :> Present(ContentFoo)) @@ (DirDeep(1) :> Absent) :
        a \in FileStates(FileATxt),
        m \in {Absent, Present(ContentManifestBuild), Present(ContentManifestSpellings)}}

Constructed ==
    /\ commandRegistry = << >>
    /\ trackedFiles = << >>
    /\ projectRoot = NoRoot
    /\ dependencyGraph = << >>
    /\ cache = << >>
    /\ last = Event("constructor", << >>, "returned", "")
    /\ goneTracked = {}
    /\ watchers = << >>
    /\ calls = << >>
    /\ writeLog = << >>
    /\ cacheHistory = << >>
    /\ cmmandsInstance = NoInstance
    /\ provenance = << >>

Init ==
    /\ fs \in InitialFiles
    /\ Constructed
    /\ now = 0
    /\ denied = {}
    /\ budget = [passes |-> MaxPasses, fsChanges |-> MaxFsChanges,
                 ticks |-> MaxTicks]

\* tracking, rescans and the environment
Next ==
    \/ startTracking(Root)
    \/ refresh
    \/ \E p \in FilePaths : \E content \in ContentChoices(p) : FsWrite(p, content)
    \/ \E p \in FilePaths : FsDelete(p)
    \/ \E ms \in {CacheTtlMs, CacheTtlMs + 1} : Tick(ms)

Spec == Init /\ [][Next]_vars

InitDispatch ==
    /\ fs \in DispatchFiles
    /\ Constructed
    /\ now = 0
    /\ denied = {}
    /\ budget = [passes |-> MaxDispatchPasses, fsChanges |-> 0,
                 ticks |-> 0]

\* the registry and its callers
NextDispatch ==
    \/ startTracking(Root)
    \/ \E name \in QueryNames, allowed \in BOOLEAN, actionOk \in BOOLEAN :
           executeCommand(name, allowed, actionOk)
    \/ \E filter \in Filters : listCommands(filter)
    \/ stopTracking

SpecDispatch == InitDispatch /\ [][NextDispatch]_vars

\* the projects of the walk: symbols found twice or one character long, a file
\* that is referenced and references nothing, a chain of nested directories
ScanFiles ==
    {(FileATxt :> Present(ContentHello)) @@ (FileBJs :> Present(b)) @@ (FilePackageJson :> Absent)
        @@ (FileLibBTs :> t) @@ (FileGitCJs :> Present(ContentFoo))
        @@ (FileModulesEJs :> Absent) @@ (DirDeep(1) :> d) :
        b \in {ContentFoo, ContentRequireLib, ContentFooTwice, ContentShortName},
        t \in {Absent, Present(ContentFoo), Present(ContentRequireUp)},
        d \in {Absent, Present(EmptyContent)}}

\* the directories that may refuse to be listed
ScanDenied == {{}, {DirLib}, {DirDeep(1)}}

InitScan ==
    /\ fs \in ScanFiles
    /\ Constructed
    /\ now = 0
    /\ denied \in ScanDenied
    /\ budget = [passes |-> MaxScanPasses, fsChanges |-> 0, ticks |-> 0]

\* passes over a substrate that does not change
NextScan ==
    \/ startTracking(Root)
    \/ refresh

SpecScan == InitScan /\ [][NextScan]_vars


\* the projects of the passes that meet a file they may not read
FaultFiles ==
    {(FileATxt :> Present(ContentHello)) @@ (FileBJs :> Present(ContentFoo))
        @@ (FilePackageJson :> m) @@ (FileLibBTs :> t) @@ (FileGitCJs :> Absent)
        @@ (FileModulesEJs :> Absent) @@ (DirDeep(1) :> Absent) :
        m \in {Absent, Present(ContentManifestBuild)},
        t \in {Absent, Present(ContentRequireUp)}}

\* the files that may become unreadable
FaultPaths == {FileATxt, FileBJs}

InitFaults ==
    /\ fs \in FaultFiles
    /\ Constructed
    /\ now = 0
    /\ denied = {}
    /\ budget = [passes |-> MaxFaultPasses, fsChanges |-> MaxDenials,
                 ticks |-> MaxFaultTicks]

\* passes, the clock, and files that become unreadable
NextFaults ==
    \/ startTracking(Root)
    \/ \E p \in FaultPaths : FsDeny(p)
    \/ \E ms \in {CacheTtlMs, CacheTtlMs + 1} : Tick(ms)

SpecFaults == InitFaults /\ [][NextFaults]_vars

-----------------------------------------------------------------------------
(* Passes in steps: a call runs from one await to the next, and between two
   of its steps the steps of other calls may run *)

\* the process of one call of startTracking or refresh: pc is the await it is
\* suspended at, queue, dir and entries the locals of _buildDependencyGraph,
\* files what is left of the loop of line 826, content the file content read
\* at line 924, readAt (history) the number of calls begun when it was read
CallState(op, rootPath) ==
    [op |-> op, pc |-> "readdir", root |-> rootPath, queue |-> <<rootPath>>,
     dir |-> << >>, entries |-> << >>, files |-> << >>, content |-> << >>,
     readAt |-> 0]

\* provenance after call c resumes: lines 946-968 store what was made of the
\* content the call holds
committedBy(c) ==
    IF calls[c].pc = "analyze"
    THEN MapSet(provenance, Head(calls[c].files),
                [call |-> c, readAt |-> calls[c].readAt])
    ELSE provenance

\* writeLog names, in order, the calls that changed trackedFiles,
\* commandRegistry or dependencyGraph; consecutive changes of one call are one
\* entry
logWrite(log, c, before, after) ==
    IF /\ before.trackedFiles = after.trackedFiles
       /\ before.commandRegistry = after.commandRegistry
       /\ before.dependencyGraph = after.dependencyGraph
    THEN log
    ELSE IF log # << >> /\ log[Len(log)] = c THEN log
    ELSE Append(log, c)

\* lines 875-879: the directories at the head of entries are queued or
\* ignored without an await
RECURSIVE skipDirectories(_)
skipDirectories(cs) ==
    IF cs.entries = << >> THEN cs
    ELSE IF ~Head(cs.entries).isDirectory THEN cs
    ELSE skipDirectories(
             [cs EXCEPT !.entries = Tail(@),
                        !.queue = IF ~IsIgnoredName(Head(cs.entries).name)
                                  THEN Append(@, pathJoin(cs.dir, Head(cs.entries).name))
                                  ELSE @])

\* the walk up to its next await: the read of the next file of the directory,
\* the listing of the next directory, or, with nothing left, the dependents
\* loop of lines 899-909 and the return to startTracking
walkOn(cs, st) ==
    LET cs1 == skipDirectories(cs)
    IN  IF cs1.entries # << >>
        THEN [call |-> [cs1 EXCEPT !.pc = "readNode"], st |-> st, watchers |-> watchers]
        ELSE IF cs1.queue # << >>
        THEN [call |-> [cs1 EXCEPT !.pc = "readdir"], st |-> st, watchers |-> watchers]
        ELSE [call |-> [cs1 EXCEPT !.pc = "find"],
              st |-> [st EXCEPT !.dependencyGraph = buildDependents(@)],
              watchers |-> watchers]

\* the loop of line 826 up to its next await: the cache lookup of the next
\* file (lines 915-921), or, with no file left, lines 836-855
nextFile(cs, st) ==
    IF cs.files = << >>
    THEN [call |-> [cs EXCEPT !.pc = "done"],
          st |-> [st EXCEPT !.commandRegistry =
                     registerAll(@, _generateCrossFileCommands(st.trackedFiles))],
          watchers |-> _startFileWatching(watchers, cs.root)]
    ELSE LET key == cacheKey(Head(cs.files))
             st1 == [st EXCEPT !.cache = cacheAfterGet(@, key, now)]
         IN  [call |-> [cs EXCEPT !.pc = IF MapHas(st1.cache, key)
                                         THEN "update" ELSE "readFile"],
              st |-> st1, watchers |-> watchers]

\* call c goes on to r.call and leaves the state r.st
Resume(c, r) ==
    /\ Install(r.st)
    /\ calls' = [calls EXCEPT ![c] = r.call]
    /\ watchers' = r.watchers
    /\ writeLog' = logWrite(writeLog, c, State, r.st)
    /\ last' = IF r.call.pc = "done"
               THEN [Event(r.call.op, r.call.root, "resolved", "")
                        EXCEPT !.after = last.op]
               ELSE last
    /\ provenance' = committedBy(c)
    /\ UNCHANGED <<cmmandsInstance, cacheHistory, fs, projectRoot, now, goneTracked, budget,
                   denied>>

\* a call of startTracking(Root) or refresh() up to the first await, the
\* readdir of line 870
Call(op) ==
    /\ budget.passes > 0
    /\ op = "refresh" => projectRoot # NoRoot
    /\ LET c == Len(calls) + 1
           rootPath == IF op = "refresh" THEN pathResolve(projectRoot)
                       ELSE pathResolve(Root)
           st == IF op = "refresh" THEN refreshClear(State) ELSE State
       IN  /\ Install(st)
           /\ calls' = Append(calls, CallState(op, rootPath))
           /\ writeLog' = logWrite(writeLog, c, State, st)
           /\ projectRoot' = rootPath
    /\ provenance' = IF op = "refresh" THEN << >> ELSE provenance
    /\ budget' = [budget EXCEPT !.passes = @ - 1]
    /\ UNCHANGED <<cmmandsInstance, cacheHistory, fs, now, last, goneTracked, denied, watchers>>

\* line 870 resolves or rejects
ListDirectory(c) ==
    /\ calls[c].pc = "readdir"
    /\ LET cs == calls[c]
           currentPath == Head(cs.queue)
       IN  Resume(c, walkOn([cs EXCEPT !.queue = Tail(@),
                                       !.dir = currentPath,
                                       !.entries = IF throwsOnList(currentPath)
                                                   THEN << >>
                                                   ELSE readdir(fs, currentPath)],
                            State))

\* line 880 resolves, and the node is set, or rejects, and the catch of line
\* 894 drops the rest of the directory
ReadNode(c) ==
    /\ calls[c].pc = "readNode"
    /\ LET cs == calls[c]
           entry == Head(cs.entries)
           fullPath == pathJoin(cs.dir, entry.name)
           content == readFile(fs, fullPath)
           language == _detectLanguage(content, entry.name, pathExtname(entry.name))
           dependencies == analyzeDependencies(content, language)
       IN  IF throwsOnRead(fullPath)
           THEN Resume(c, walkOn([cs EXCEPT !.entries = << >>], State))
           ELSE Resume(c, walkOn([cs EXCEPT !.entries = Tail(@)],
                    [State EXCEPT !.dependencyGraph =
                        MapSet(@, fullPath,
                               GraphNode(fullPath, entry.name, language,
                                         dependencies))]))

\* line 819 resolves
FindFiles(c) ==
    /\ calls[c].pc = "find"
    /\ Resume(c, nextFile([calls[c] EXCEPT
                              !.files = _findAllFiles(fs, calls[c].root).files],
                          State))

\* line 924 resolves or rejects
ReadFile(c) ==
    /\ calls[c].pc = "readFile"
    /\ LET cs == calls[c]
           filePath == Head(cs.files)
           content == readFile(fs, filePath)
       IN  Resume(c, [call |-> IF throwsOnRead(filePath) \/ content = << >>
                               THEN [cs EXCEPT !.pc = "update"]
                               ELSE [cs EXCEPT !.pc = "analyze", !.content = content,
                                               !.readAt = Len(calls)],
                      st |-> State, watchers |-> watchers])

\* line 937 resolves: lines 940-970 with the content read at line 924
Analyze(c) ==
    /\ calls[c].pc = "analyze"
    /\ LET cs == calls[c]
       IN  Resume(c, [call |-> [cs EXCEPT !.pc = "update", !.content = << >>],
                      st |-> commitFile(State, now, Head(cs.files), cs.content),
                      watchers |-> watchers])

\* line 828 resolves: line 833, then the next file
UpdateDependencies(c) ==
    /\ calls[c].pc = "update"
    /\ LET cs == calls[c]
       IN  Resume(c, nextFile([cs EXCEPT !.files = Tail(@)],
                              _updateFileDependencies(State, Head(cs.files))))

\* a project of two files
OverlapFiles ==
    (FileATxt :> Present(ContentHello)) @@ (FileBJs :> Present(ContentFoo))
        @@ (FilePackageJson :> Absent) @@ (FileLibBTs :> Absent)
        @@ (FileGitCJs :> Absent) @@ (FileModulesEJs :> Absent)
        @@ (DirDeep(1) :> Absent)

InitOverlap ==
    /\ fs = OverlapFiles
    /\ Constructed
    /\ now = 0
    /\ denied = {}
    /\ budget = [passes |-> MaxCalls, fsChanges |-> 0, ticks |-> 0]

\* calls of startTracking and refresh that may overlap
NextOverlap ==
    \/ \E op \in {"startTracking", "refresh"} : Call(op)
    \/ \E c \in DOMAIN calls : ListDirectory(c)
    \/ \E c \in DOMAIN calls : ReadNode(c)
    \/ \E c \in DOMAIN calls : FindFiles(c)
    \/ \E c \in DOMAIN calls : ReadFile(c)
    \/ \E c \in DOMAIN calls : Analyze(c)
    \/ \E c \in DOMAIN calls : UpdateDependencies(c)

SpecOverlap == InitOverlap /\ [][NextOverlap]_vars

-----------------------------------------------------------------------------
(* The cache on its own *)

\* what cache.get returns: null for an entry past its expiry (784), else
\* Map.get of the key (786), undefined when there is none
cacheGet(c, key, t) ==
    IF MapHas(c, key) /\ ~MapHas(cacheAfterGet(c, key, t), key) THEN "null"
    ELSE IF MapHas(c, key) THEN MapGet(c, key).value
    ELSE "undefined"

\* cache.delete and cache.clear
cacheDelete(c, key) == MapDelete(c, key)
cacheClear(c) == << >>

CacheKeys == {cacheKey(FileATxt), cacheKey(FileBJs)}
CacheValues == {"v1", "v2"}
CacheTtls == {0, 1}

\* the last set of a key, and whether no delete or clear came after it
SetRecord(value, t, ttlMs) ==
    [value |-> value, at |-> t, ttl |-> ttlMs, stands |-> TRUE]

CacheCall(op, key, result) ==
    [Event(op, key, "returned", "") EXCEPT !.result = result]

CacheSet(key, value, ttlMs) ==
    /\ cache' = cacheSet(cache, key, value, now, ttlMs)
    /\ cacheHistory' = MapSet(cacheHistory, key, SetRecord(value, now, ttlMs))
    /\ last' = CacheCall("cache.set", key, << >>)
    /\ UNCHANGED <<provenance, cmmandsInstance, fs, commandRegistry, trackedFiles, projectRoot, dependencyGraph,
                   now, goneTracked, budget, denied, watchers, calls, writeLog>>

\* result holds what the call returned, when, whether the key had an entry,
\* and size() before and after the call
CacheGet(key) ==
    /\ cache' = cacheAfterGet(cache, key, now)
    /\ last' = CacheCall("cache.get", key,
                         [value |-> cacheGet(cache, key, now),
                          at |-> now,
                          hadEntry |-> MapHas(cache, key),
                          sizeBefore |-> Len(cache),
                          sizeAfter |-> Len(cacheAfterGet(cache, key, now))])
    /\ UNCHANGED <<provenance, cmmandsInstance, fs, commandRegistry, trackedFiles, projectRoot, dependencyGraph,
                   now, goneTracked, budget, denied, watchers, calls, writeLog,
                   cacheHistory>>

CacheDelete(key) ==
    /\ cache' = cacheDelete(cache, key)
    /\ cacheHistory' = IF MapHas(cacheHistory, key)
                       THEN MapSet(cacheHistory, key,
                                   [MapGet(cacheHistory, key) EXCEPT !.stands = FALSE])
                       ELSE cacheHistory
    /\ last' = CacheCall("cache.delete", key, << >>)
    /\ UNCHANGED <<provenance, cmmandsInstance, fs, commandRegistry, trackedFiles, projectRoot, dependencyGraph,
                   now, goneTracked, budget, denied, watchers, calls, writeLog>>

CacheClear ==
    /\ cache' = cacheClear(cache)
    /\ cacheHistory' = [i \in 1..Len(cacheHistory) |->
                           [k |-> cacheHistory[i].k,
                            v |-> [cacheHistory[i].v EXCEPT !.stands = FALSE]]]
    /\ last' = CacheCall("cache.clear", << >>, << >>)
    /\ UNCHANGED <<provenance, cmmandsInstance, fs, commandRegistry, trackedFiles, projectRoot, dependencyGraph,
                   now, goneTracked, budget, denied, watchers, calls, writeLog>>

\* Date.now() is positive
InitCache ==
    /\ fs = OverlapFiles
    /\ Constructed
    /\ now = 1
    /\ denied = {}
    /\ budget = [passes |-> 0, fsChanges |-> 0, ticks |-> MaxCacheTicks]

\* the calls on the cache, and the clock
NextCache ==
    \/ \E key \in CacheKeys, value \in CacheValues, ttlMs \in CacheTtls :
           CacheSet(key, value, ttlMs)
    \/ \E key \in CacheKeys : CacheGet(key)
    \/ \E key \in CacheKeys : CacheDelete(key)
    \/ CacheClear
    \/ Tick(1)

SpecCache == InitCache /\ [][NextCache]_vars

-----------------------------------------------------------------------------
(* initializeCMMANDS: the module's one instance *)

\* a call that found cmmandsInstance set: it skips lines 1848-1870 and has no
\* await before the return of line 1873
ReturnedCall(rootPath) ==
    [CallState("initializeCMMANDS", rootPath) EXCEPT !.pc = "returned", !.queue = << >>]

\* initializeCMMANDS(rootPath) up to its first await, the readdir of line 870
\* under the startTracking of line 1864, or, with an instance there, to its
\* return
initializeCMMANDS(rootPath) ==
    /\ budget.passes > 0
    /\ IF cmmandsInstance = NoInstance
       THEN /\ cmmandsInstance' = TheInstance
            /\ calls' = Append(calls, CallState("initializeCMMANDS",
                                                pathResolve(rootPath)))
            /\ projectRoot' = pathResolve(rootPath)
            /\ UNCHANGED last
       ELSE /\ calls' = Append(calls, ReturnedCall(rootPath))
            /\ last' = [Event("initializeCMMANDS", rootPath, "resolved", "")
                           EXCEPT !.after = last.op]
            /\ UNCHANGED <<provenance, cmmandsInstance, projectRoot>>
    /\ budget' = [budget EXCEPT !.passes = @ - 1]
    /\ UNCHANGED <<provenance, cacheHistory, fs, commandRegistry, trackedFiles, dependencyGraph,
                   cache, now, goneTracked, denied, watchers, writeLog>>

InitInitialize ==
    /\ fs = OverlapFiles
    /\ Constructed
    /\ now = 0
    /\ denied = {}
    /\ budget = [passes |-> MaxInitCalls, fsChanges |-> 0, ticks |-> 0]

\* calls of initializeCMMANDS that may overlap
NextInitialize ==
    \/ \E rootPath \in {Root, DirLib} : initializeCMMANDS(rootPath)
    \/ \E c \in DOMAIN calls : ListDirectory(c)
    \/ \E c \in DOMAIN calls : ReadNode(c)
    \/ \E c \in DOMAIN calls : FindFiles(c)
    \/ \E c \in DOMAIN calls : ReadFile(c)
    \/ \E c \in DOMAIN calls : Analyze(c)
    \/ \E c \in DOMAIN calls : UpdateDependencies(c)

SpecInitialize == InitInitialize /\ [][NextInitialize]_vars

-----------------------------------------------------------------------------
(* Properties *)

\* the ignore set as the specification names it
IgnoreSet == {<<"n","o","d","e","_","m","o","d","u","l","e","s">>, <<".","g","i","t">>, <<"d","i","s","t">>, <<"b","u","i","l","d">>}   \* "node_modules", ".git", "dist", "build"

\* the directory names between the root and the last component of p
DirectoriesAbove(p) ==
    LET parts == split(SubSeq(p, Len(Root) + 2, Len(p)), {"/"})
    IN  {parts[i] : i \in 1..(Len(parts) - 1)}

UnderIgnored(p) == DirectoriesAbove(p) \cap IgnoreSet # {}

\* a directory that is ignored or lies below an ignored one
IgnoredDirectory(d) ==
    d # Root /\ LET parts == split(SubSeq(d, Len(Root) + 2, Len(d)), {"/"})
                IN  \E i \in 1..Len(parts) : parts[i] \in IgnoreSet

NonIgnoredFiles == {p \in FilePaths : fs[p].exists /\ ~UnderIgnored(p)}

EntryCount(m, key) == Cardinality({i \in 1..Len(m) : m[i].k = key})

RegistryNames == MapKeySet(commandRegistry)

PassDone == last.op \in {"startTracking", "refresh"} /\ last.outcome = "resolved"

\* C1: after startTracking(root) completes, every non-ignored file under root,
\* an empty file included, has exactly one entry in trackedFiles and at least
\* one of its commands in commandRegistry.
C1_EveryFileTracked ==
    (last.op = "startTracking" /\ last.outcome = "resolved") =>
        \A p \in NonIgnoredFiles :
            /\ EntryCount(trackedFiles, p) = 1
            /\ \E i \in 1..Len(MapGet(trackedFiles, p).commands) :
                   MapGet(trackedFiles, p).commands[i] \in RegistryNames

\* C2: executeCommand never raises: a missing name gives a not-found result
\* and a throwing action a failed result, not an error thrown at the caller.
C2_ExecuteNeverRaises ==
    last.op = "executeCommand" => last.outcome = "returned"

\* C3: executeCommand and getCommands leave commandRegistry as it was,
\* whether the call succeeds, finds nothing or fails.
C3_LookupLeavesRegistry ==
    [][last'.op \in {"executeCommand", "getCommands"}
          => commandRegistry' = commandRegistry]_vars

C3_Witness ==
    /\ last.op = "executeCommand"
    /\ last.error = "action error"
    /\ Len(commandRegistry) > 2

\* runs of the separator become one separator
RECURSIVE collapse(_)
collapse(s) ==
    IF Len(s) < 2 THEN s
    ELSE IF s[1] = "-" /\ s[2] = "-" THEN collapse(Tail(s))
    ELSE <<s[1]>> \o collapse(Tail(s))

\* the normal form of a name: lower case, other characters collapsed to '-'
NormalForm(name) ==
    collapse([i \in 1..Len(name) |->
                 IF toLowerCase(name)[i] \in LowerAlnum THEN toLowerCase(name)[i] ELSE "-"])

\* C4: names are normalized on registration and on lookup: two spellings of
\* one normal form leave a single registry entry, and executing any spelling
\* of a registered name finds it.
C4_NamesNormalized ==
    /\ \A i, j \in 1..Len(commandRegistry) :
           NormalForm(commandRegistry[i].k) = NormalForm(commandRegistry[j].k) => i = j
    /\ (/\ last.op = "executeCommand"
        /\ \E i \in 1..Len(commandRegistry) :
               NormalForm(commandRegistry[i].k) = NormalForm(last.arg))
           => last.error # "Command not found"

CommonPrefix(s, t) ==
    LET n == IF Len(s) < Len(t) THEN Len(s) ELSE Len(t)
        agree == {i \in 0..n : SubSeq(s, 1, i) = SubSeq(t, 1, i)}
    IN  CHOOSE i \in agree : \A j \in agree : j <= i

\* more than half of the longer name
SubstantialPrefix(s, t) ==
    2 * CommonPrefix(s, t) > (IF Len(s) < Len(t) THEN Len(t) ELSE Len(s))

\* C5: executing an unregistered name that shares a substantial prefix with a
\* registered name puts that name among the suggestions, of which there are
\* at most 5.
C5_PrefixSuggested ==
    (last.op = "executeCommand" /\ last.error = "Command not found") =>
        /\ Len(last.suggestions) <= 5
        /\ \A name \in RegistryNames :
               SubstantialPrefix(last.arg, name) =>
                   \E i \in 1..Len(last.suggestions) : last.suggestions[i] = name

\* C6: once a tracked file is removed and a refresh has completed, trackedFiles
\* has no entry for it, no command made for it is registered, and it is in no
\* node's dependents.
C6_RemovedFileForgotten ==
    (last.op = "refresh" /\ last.outcome = "resolved") =>
        \A p \in goneTracked :
            /\ ~MapHas(trackedFiles, p)
            /\ \A i \in 1..Len(commandRegistry) : commandRegistry[i].v.owner # p
            /\ \A i \in 1..Len(dependencyGraph) : p \notin dependencyGraph[i].v.dependents

\* lib/b.ts, which b.js depended on and which depended on b.js, was tracked,
\* removed, and a refresh completed
C6_Witness ==
    /\ last.op = "refresh"
    /\ goneTracked = {FileLibBTs}
    /\ fs[FileBJs] = Present(ContentRequireLib)
    /\ MapHas(trackedFiles, FileBJs)

\* C7: a refresh directly after a refresh, the files unchanged, leaves
\* trackedFiles, dependencyGraph and commandRegistry as the first left them.
C7_RefreshIdempotent ==
    [][(last.op = "refresh" /\ last'.op = "refresh" /\ fs' = fs)
          => /\ trackedFiles' = trackedFiles
             /\ dependencyGraph' = dependencyGraph
             /\ commandRegistry' = commandRegistry]_vars

C7_Witness ==
    /\ last.op = "refresh"
    /\ last.after = "refresh"
    /\ now > CacheTtlMs
    /\ Len(trackedFiles) > 1
    /\ \E i \in 1..Len(dependencyGraph) : dependencyGraph[i].v.dependents # {}

\* C8: no file below a directory of the ignore set, at any depth, is a key of
\* trackedFiles or of dependencyGraph, and no such directory is listed.
C8_IgnoredNeverTracked ==
    /\ \A p \in MapKeySet(trackedFiles) \cup MapKeySet(dependencyGraph) : ~UnderIgnored(p)
    /\ \A d \in last.listed : ~IgnoredDirectory(d)

C8_Witness ==
    /\ PassDone
    /\ fs[FileGitCJs].exists
    /\ fs[FileModulesEJs].exists
    /\ DirLib \in last.listed
    /\ MapHas(trackedFiles, FileLibBTs)
    /\ MapHas(dependencyGraph, FileLibBTs)

\* C9: with exactly an empty a.txt and a b.js holding `function foo(){}` under
\* the root, tracking registers init-a and no symbol command for a.txt,
\* registers call-b-foo, and leaves exactly 2 tracked files.
C9_EmptyAndFooScenario ==
    (/\ last.op = "startTracking"
     /\ last.after = "constructor"
     /\ fs[FileATxt] = Present(EmptyContent)
     /\ fs[FileBJs] = Present(ContentFoo)
     /\ \A p \in FilePaths \ {FileATxt, FileBJs} : ~fs[p].exists)
        => /\ <<"i","n","i","t","-","a">> \in RegistryNames   \* "init-a"
           /\ <<"c","a","l","l","-","b","-","f","o","o">> \in RegistryNames   \* "call-b-foo"
           /\ Len(trackedFiles) = 2

\* C10: with a parseable package.json whose scripts have the key build, after
\* tracking npm-build is a name of getCommands() and executeCommand("npm-build")
\* finds a command.
C10_NpmBuildRegistered ==
    (projectRoot # NoRoot /\ fs[FilePackageJson] = Present(ContentManifestBuild)) =>
        /\ \E i \in 1..Len(getCommands(commandRegistry, NoFilter)) :
               getCommands(commandRegistry, NoFilter)[i].name = NameNpmBuild
        /\ (last.op = "executeCommand" /\ last.arg = NameNpmBuild)
               => last.error # "Command not found"


\* C12: startTracking on an instance that is already tracking is a no-op or
\* a restart: whatever the number of startTracking calls, at most one watch
\* subscription is active.
C12_SingleSubscription == Len(watchers) <= 1

\* C13: stopTracking cancels every watch subscription that tracking took and
\* returns; a second stop changes nothing.
C13_StopCancels ==
    last.op = "stopTracking" => (last.outcome = "returned" /\ watchers = << >>)

\* C14: after a tracking pass completes, dependencyGraph and trackedFiles have
\* the same keys: a node for every tracked file, none for an untracked path.
C14_GraphKeysAreTrackedKeys ==
    PassDone => MapKeySet(dependencyGraph) = MapKeySet(trackedFiles)

\* the files of the walk whose read gives no content
ReadsNothing == {p \in NonIgnoredFiles : fs[p].content = << >>}

\* C16: when a pass tracks a path whose read fails or gives no content, no
\* entry for that path is left in trackedFiles, and the pass does not raise.
C16_UnreadableEntryRemoved ==
    (last.op = "startTracking") =>
        /\ last.outcome = "resolved"
        /\ \A p \in ReadsNothing : ~MapHas(trackedFiles, p)

\* the names of the commands a tracked path owns
CommandsOf(p) ==
    {MapGet(trackedFiles, p).commands[i] :
        i \in 1..Len(MapGet(trackedFiles, p).commands)}

\* C19: the commands of two different tracked paths never share a name.
C19_NamesUniqueAcrossFiles ==
    \A p, q \in MapKeySet(trackedFiles) : p # q => CommandsOf(p) \cap CommandsOf(q) = {}

\* the nodes other than n with a reference that contains the name or the path of n
ReferencedBy(n) ==
    {dependencyGraph[j].k : j \in {h \in 1..Len(dependencyGraph) :
        /\ dependencyGraph[h].k # n
        /\ \E d \in 1..Len(dependencyGraph[h].v.dependencies) :
               \/ includes(dependencyGraph[h].v.dependencies[d], MapGet(dependencyGraph, n).name)
               \/ includes(dependencyGraph[h].v.dependencies[d], n)}}

\* C15: after the graph is built, the dependents of every node, a node
\* without dependencies included, are exactly the other nodes with a reference
\* that contains its name or its path.
C15_DependentsExact ==
    PassDone =>
        \A n \in MapKeySet(dependencyGraph) :
            MapGet(dependencyGraph, n).dependents = ReferencedBy(n)

\* the number of directories between the root and d, d included
Depth(d) ==
    IF d = Root THEN 0
    ELSE Len(split(SubSeq(d, Len(Root) + 2, Len(d)), {"/"}))

\* C17: the walk of a tracking pass lists no directory more than maxDepth
\* (10) levels below the root.
C17_WalkDepthBounded ==
    \A d \in last.listed : Depth(d) <= ScanMaxDepth

\* C18: a directory whose listing fails is skipped and the walk goes on: every
\* entry of a directory that was listed is handled (a subdirectory outside
\* the ignore set is listed in its turn, a file becomes a graph node), and the
\* pass does not raise.
C18_ListingFailureSwallowed ==
    PassDone =>
        /\ Root \in last.walked
        /\ \A dir \in last.walked \ denied :
               \A i \in 1..Len(readdir(fs, dir)) :
                   LET entry == readdir(fs, dir)[i]
                   IN  IF entry.isDirectory
                       THEN entry.name \in IgnoreSet
                                \/ pathJoin(dir, entry.name) \in last.walked
                       ELSE MapHas(dependencyGraph, pathJoin(dir, entry.name))

\* lib refuses to be listed: the chain, queued before it, is walked to its end
\* after the failure, and the files of the root are nodes
C18_Witness ==
    /\ PassDone
    /\ denied = {DirLib}
    /\ DirLib \in last.walked
    /\ fs[FileLibBTs].exists
    /\ ~MapHas(dependencyGraph, FileLibBTs)
    /\ DirDeep(TreeDepth) \in last.walked
    /\ MapHas(dependencyGraph, FileBJs)

\* the commands of p that invoke a symbol
InvokeCommands(p) ==
    SelectSeq(MapGet(trackedFiles, p).commands,
              LAMBDA name : SubSeq(name, 1, 8) = <<"e","x","e","c","u","t","e",":">>)   \* "execute:"

\* the symbol names found in p that are longer than one character
SymbolNames(p) ==
    {MapGet(trackedFiles, p).analysis.functions[i].name :
        i \in {j \in 1..Len(MapGet(trackedFiles, p).analysis.functions) :
                  Len(MapGet(trackedFiles, p).analysis.functions[j].name) > 1}}

\* C20: a file with content gets one invoke-symbol command for each distinct
\* symbol name of more than one character, and no command name twice.
C20_OneCommandPerSymbol ==
    \A p \in MapKeySet(trackedFiles) :
        /\ Len(InvokeCommands(p)) = Cardinality(SymbolNames(p))
        /\ \A i, j \in 1..Len(MapGet(trackedFiles, p).commands) :
               MapGet(trackedFiles, p).commands[i] = MapGet(trackedFiles, p).commands[j]
                   => i = j

\* C11: when calls of startTracking and refresh overlap, the writes of two
\* passes to trackedFiles, commandRegistry and dependencyGraph are never
\* interleaved: no call writes again after another call has written
C11_WritesNotInterleaved ==
    \A i, j \in DOMAIN writeLog : writeLog[i] = writeLog[j] => i = j

\* the names of the commands a file gets whatever it holds
OrdinaryCommands(safeName) ==
    <<<<"f","i","l","e",":","o","p","e","n",":">> \o safeName, <<"f","i","l","e",":","e","d","i","t",":">> \o safeName,   \* "file:open:", "file:edit:"
      <<"a","n","a","l","y","z","e",":","m","e","t","r","i","c","s",":">> \o safeName>>   \* "analyze:metrics:"

\* the tracked entry of package.json was synthesized from text that does not
\* parse
BadManifestTracked ==
    /\ PassDone
    /\ MapHas(trackedFiles, FilePackageJson)
    /\ MapHas(commandRegistry, <<"f","i","l","e",":","o","p","e","n",":","p","a","c","k","a","g","e">>)   \* "file:open:package"
    /\ MapGet(commandRegistry, <<"f","i","l","e",":","o","p","e","n",":","p","a","c","k","a","g","e">>).action.content = ContentManifestBad   \* "file:open:package"

\* C21: a package.json that does not parse is skipped silently: its commands
\* are the ordinary file commands, with no script or dependency command, the
\* pass resolves, and the files after it are tracked.
C21_BadManifestSkipped ==
    BadManifestTracked =>
        /\ MapGet(trackedFiles, FilePackageJson).commands = OrdinaryCommands(<<"p","a","c","k","a","g","e">>)   \* "package"
        /\ last.outcome = "resolved"
        /\ (fs[FileLibBTs].exists /\ fs[FileLibBTs].content # << >>)
               => MapHas(trackedFiles, FileLibBTs)

C21_Witness ==
    /\ BadManifestTracked
    /\ fs[FilePackageJson] = Present(ContentManifestBad)
    /\ fs[FileLibBTs].exists
    /\ MapHas(trackedFiles, FileLibBTs)

\* q occurs in s when letter case is left aside
OccursIgnoringCase(q, s) ==
    \E i \in 0..(Len(s) - Len(q)) :
        \A j \in 1..Len(q) : toLowerCase(<<s[i + j]>>) = toLowerCase(<<q[j]>>)

\* the registered command of that name satisfies every field of the filter
\* that is supplied
Satisfies(name, filter) ==
    LET cmd == MapGet(commandRegistry, name)
    IN  /\ filter.category # "" => cmd.category = filter.category
        /\ filter.tag # "" => \E i \in 1..Len(cmd.tags) : cmd.tags[i] = filter.tag
        /\ filter.search # << >> =>
               \/ OccursIgnoringCase(filter.search, name)
               \/ OccursIgnoringCase(filter.search, cmd.description)

\* C22: getCommands(filter) returns exactly the registered commands that
\* satisfy every supplied field of the filter together, each once and with the
\* fields of its registry entry; with an empty filter, one descriptor for each
\* registry entry.
C22_ListIsExactlyTheMatches ==
    last.op = "getCommands" =>
        /\ {last.result[i].name : i \in 1..Len(last.result)}
               = {n \in RegistryNames : Satisfies(n, last.filter)}
        /\ \A i, j \in 1..Len(last.result) :
               last.result[i].name = last.result[j].name => i = j
        /\ \A i \in 1..Len(last.result) :
               LET cmd == MapGet(commandRegistry, last.result[i].name)
               IN  /\ last.result[i].description = cmd.description
                   /\ last.result[i].category = cmd.category
                   /\ last.result[i].tags = cmd.tags
        /\ last.filter = NoFilter => Len(last.result) = Len(commandRegistry)

\* the three fields are supplied, and they keep some commands of the category
\* and drop others
C22_Witness ==
    /\ last.op = "getCommands"
    /\ last.filter.category # "" /\ last.filter.tag # "" /\ last.filter.search # << >>
    /\ last.result # << >>
    /\ \E n \in RegistryNames :
           /\ MapGet(commandRegistry, n).category = last.filter.category
           /\ ~Satisfies(n, last.filter)

\* the entry tracking makes of p from the content p holds now
FreshEntry(p) ==
    MapGet(commitFile(refreshClear(State), now, p, fs[p].content).trackedFiles, p)

\* C23: a startTracking call over a tracked file whose content has changed
\* replaces the entry with one made from the new content, however recently the
\* file was tracked: after the call every tracked file that holds content has
\* the entry of that content.
C23_ChangedFileRetracked ==
    (last.op = "startTracking" /\ last.outcome = "resolved") =>
        \A p \in MapKeySet(trackedFiles) :
            (fs[p].exists /\ fs[p].content # << >>) =>
                MapGet(trackedFiles, p) = FreshEntry(p)

\* the call left what it found, apart from the cache when apartFromCache
RaisedCallKeeps(r, apartFromCache) ==
    /\ r.returned = << >>
    /\ r.after.commandRegistry = r.before.commandRegistry
    /\ r.after.trackedFiles = r.before.trackedFiles
    /\ apartFromCache \/ r.after.cache = r.before.cache

\* the files the loop had left were processed: each of them that can be read
\* and holds content is tracked
RestProcessed(r) ==
    \A i \in 1..Len(r.rest) :
        (/\ fs[r.rest[i]].exists
         /\ fs[r.rest[i]].content # << >>
         /\ r.rest[i] \notin denied) => MapHas(trackedFiles, r.rest[i])

C25_ReadFailureIsLocal ==
    PassDone =>
        \A dir \in last.walked \ denied :
            \A i \in 1..Len(readdir(fs, dir)) :
                LET entry == readdir(fs, dir)[i]
                    fullPath == pathJoin(dir, entry.name)
                IN  /\ (entry.isDirectory /\ entry.name \notin IgnoreSet)
                           => fullPath \in last.walked
                    /\ (~entry.isDirectory /\ fullPath \notin denied)
                           => MapHas(dependencyGraph, fullPath)

\* how often the action ran in the call
ActionRuns == Cardinality({i \in 1..Len(last.trace) : last.trace[i] = "action"})

\* C26: a call of executeCommand runs the action of the command at most once,
\* and only after security.validateCommand has allowed it; when the check does
\* not allow the command the action does not run and the call fails with a
\* 'Command blocked' error.
C26_ActionOnlyAfterAllowed ==
    last.op = "executeCommand" =>
        /\ ActionRuns <= 1
        /\ \A i \in 1..Len(last.trace) :
               last.trace[i] = "action" =>
                   /\ last.verdict = "allowed"
                   /\ \E j \in 1..(i - 1) : last.trace[j] = "validateCommand"
        /\ last.verdict = "blocked" =>
               /\ ActionRuns = 0
               /\ last.outcome = "threw"
               /\ last.error = "Command blocked"

\* a registered command was looked up, checked and blocked
C26_Witness ==
    /\ last.op = "executeCommand"
    /\ MapHas(commandRegistry, last.arg)
    /\ last.trace = <<"get", "validateCommand">>
    /\ last.verdict = "blocked"
    /\ last.error = "Command blocked"

\* C27: after any sequence of set, get, delete and clear, get(key) returns the
\* value of the last set(key) while the time is not later than the time of
\* that set plus its ttl and no delete or clear came after it; a get at a later
\* time that finds the entry returns null and removes it, so that size() is
\* one less, and the value is not returned again.
C27_GetFollowsLastSet ==
    (last.op = "cache.get" /\ MapHas(cacheHistory, last.arg)
                          /\ MapGet(cacheHistory, last.arg).stands) =>
        LET h == MapGet(cacheHistory, last.arg)
            r == last.result
        IN  IF r.at <= h.at + h.ttl
            THEN r.value = h.value /\ r.sizeAfter = r.sizeBefore
            ELSE /\ r.value \notin CacheValues
                 /\ ~MapHas(cache, last.arg)
                 /\ r.hadEntry =>
                        r.value = "null" /\ r.sizeAfter = r.sizeBefore - 1

\* a get found an entry past its time while the other key had an entry
C27_Witness ==
    /\ last.op = "cache.get"
    /\ MapHas(cacheHistory, last.arg)
    /\ MapGet(cacheHistory, last.arg).stands
    /\ last.result.hadEntry
    /\ last.result.value = "null"
    /\ last.result.sizeBefore = 2
    /\ last.result.sizeAfter = 1

\* C28: in every state, those reached while calls of refresh and
\* startTracking overlap included, every command name in the commands list of
\* a trackedFiles entry is a key of commandRegistry.
C28_TrackedCommandsRegistered ==
    \A p \in MapKeySet(trackedFiles) :
        \A i \in 1..Len(MapGet(trackedFiles, p).commands) :
            MapHas(commandRegistry, MapGet(trackedFiles, p).commands[i])

\* a refresh came while a pass was in flight, their writes alternated, and the
\* pass has since committed a file
C28_Witness ==
    /\ Len(calls) = 2
    /\ calls[2].op = "refresh"
    /\ calls[1].pc # "done"
    /\ writeLog = <<1, 2, 1>>
    /\ trackedFiles # << >>

\* C29: whenever a call of initializeCMMANDS has resolved with the instance,
\* a startTracking on that instance has completed without error, also when
\* the call was made while an earlier one was still in progress
C29_ResolvedMeansTracked ==
    \A c \in DOMAIN calls :
        (calls[c].op = "initializeCMMANDS" /\ calls[c].pc \in {"done", "returned"})
            => \E d \in DOMAIN calls :
                   calls[d].op = "initializeCMMANDS" /\ calls[d].pc = "done"

\* the paths that have a trackedFiles entry or a cached analysis
Committed == {p \in FilePaths : MapHas(trackedFiles, p) \/ MapHas(cache, cacheKey(p))}

\* C30: after a refresh() call has resolved, every trackedFiles entry and
\* every cached analysis was made from content read after that call began
C30_EntriesReadAfterRefresh ==
    \A r \in DOMAIN calls :
        (calls[r].op = "refresh" /\ calls[r].pc = "done")
            => \A p \in Committed :
                   MapHas(provenance, p) /\ MapGet(provenance, p).readAt >= r
====
